---- MODULE Spec2Model ----
(***************************************************************************)
(* Chat session state of the Dennou-Chan bot: ChatInstances (the session   *)
(* registry, core/chat/chat_instance.py) and ChatHistory (the per-session  *)
(* history cache over an SQLite table, core/chat/history.py).              *)
(*                                                                         *)
(* The program is one asyncio event loop.  A coroutine runs without        *)
(* interruption from one suspension point (an await that really waits:     *)
(* an aiosqlite call, the completion call, a held lock) to the next, so    *)
(* each action below is one such uninterrupted stretch of code.            *)
(***************************************************************************)
EXTENDS Integers, Sequences, FiniteSets, TLC

(***************************************************************************)
(* Bounds of the model.                                                    *)
(***************************************************************************)
MaxChats == 3       \* chat() calls plus sessions in use, less one, over the whole behaviour
MaxSaves == 2       \* save_all_session() calls over the whole behaviour
MaxRuns == 1        \* process restarts
MaxClears == 1      \* clear() and aclear() calls over the whole behaviour
MaxFairSaves == 1   \* save_all_session() calls in the run under fair scheduling
S1Exchanges == 130  \* chat() calls of the scenario with the default history parameters

Sessions == {"s1", "s2"}
Tasks == {"t1", "t2"}          \* concurrently running on_message handlers
Inputs == {"a"}                \* user_input texts
Replies == {"r"}               \* response.content texts

(***************************************************************************)
(* ChatHistory.__init__ parameters max_recent and summarize_threshold.     *)
(* The source defaults are 20 and 100; the model instantiates them small   *)
(* so that the threshold of summarize_if_necessary is crossed within the   *)
(* bounds above.                                                           *)
(***************************************************************************)
max_recent == 1
summarize_threshold == 1

\* msg.additional_kwargs.get("timestamp", 0.0): the value read when a message
\* carries no "timestamp" key.
DefaultTimestamp == 0
\* Marks a message whose additional_kwargs has no "timestamp" key.
NoTimestamp == -1

VARIABLES
    runnables,        \* keys of ChatInstances._runnables
    prompts,          \* keys of ChatInstances._prompts
    histories,        \* keys of ChatInstances._histories
    stats,            \* ChatInstances._stats: session id -> ChatStatistic
    messages,         \* ChatHistory._messages of each session's history
    db_initialized,   \* ChatHistory._db_initialized
    db_lock,          \* ChatHistory._db_lock: "free" or its holder (a handler, "flush", "clear")
    db,               \* committed rows of chat_history in each session's file
    stats_file,       \* content of stats.json
    pc,               \* where each handler's chat() call is suspended
    sess,             \* session_id of the call
    input,            \* user_input of the call
    now,              \* local `now` of the call
    result,           \* how the last chat() call that ended, ended
    fpc,              \* where each _flush_and_summarize task is suspended, or how it ended
    fidx,             \* position of the `for msg in self._messages` iterator
    ftx,              \* rows inserted by the flush's open transaction
    spc,              \* state of the save_all_session() call
    clock,            \* datetime.now()
    calls, saves, runs, clears,   \* counters for the bounds
    built,            \* RunnableWithMessageHistory objects constructed per session (this run)
    loads,            \* load_all_messages calls per session (this run)
    loaded_rows,      \* rows the load of this run read into each session's list
    commits,          \* flushes committed to each session's store so far
    flushed,          \* in-memory messages at the last committed flush (none after a clear)
    quiet,            \* a flush of this history completed and nothing was appended since
    serial,           \* no two operations on the session have overlapped so far
    returned,         \* the query or clear call that returned in this step, with its value
    handled,          \* what the chat cog did with the last inbound events (at most two)
    closing,          \* how far DChanBot.close() has come past the cogs' shutdown hooks
    notified          \* the last run of a schedule loop: its guilds and the notifications sent

vars == <<runnables, prompts, histories, stats, messages, db_initialized, db_lock,
          db, stats_file, pc, sess, input, now, result, fpc, fidx, ftx, spc,
          clock, calls, saves, runs, clears, built, loads, loaded_rows, commits, flushed, quiet,
          serial, returned, handled, closing, notified>>

\* close() has not come past the loop over the cogs' hooks.
NotClosing == [stage |-> "open", written |-> {}]

\* No schedule loop has run yet.
NoRun == [loop |-> "none", guilds_conf |-> <<>>, sent |-> <<>>]

registry == <<runnables, prompts, histories>>
counters == <<calls, saves, runs, clears>>

\* The state of ChatInstances, its histories and their callers.
instances == <<runnables, prompts, histories, stats, messages, db_initialized, db_lock,
               db, stats_file, pc, sess, input, now, result, fpc, fidx, ftx, spc,
               clock, calls, saves, runs, clears, built, loads, loaded_rows, commits, flushed, quiet,
               serial, returned>>

\* What is observed of the cogs and of the bot around them.
cogs == <<handled, closing, notified>>

(***************************************************************************)
(* Data                                                                    *)
(***************************************************************************)
TokenUsage(i, o, t) == [input_tokens |-> i, output_tokens |-> o, total_tokens |-> t]

\* usage_metadata values a completion may report
Usages == {TokenUsage(2, 1, 3)}

\* No statistics query and no clear call has returned in the step.
NoReturn == [call |-> "none"]

\* ChatStatistic()
ChatStatistic == [chat_count |-> 0, tokusage |-> TokenUsage(0, 0, 0)]

HumanMessage(content) == [type |-> "human", content |-> content, ts |-> NoTimestamp]
AIMessage(content, ts) == [type |-> "ai", content |-> content, ts |-> ts]

\* ts_raw = msg.additional_kwargs.get("timestamp", 0.0)
Timestamp(m) == IF m.ts = NoTimestamp THEN DefaultTimestamp ELSE m.ts


(***************************************************************************)
(* Transcript store: the chat_history table                                *)
(***************************************************************************)
\* The parameters of the INSERT in flush_to_db: the role is derived from the
\* message class and a missing timestamp is stored as the default.
RowOf(s, m) ==
    [session_id |-> s,
     role |-> IF m.type = "human" THEN "Human" ELSE "AI",
     content |-> m.content,
     timestamp |-> Timestamp(m)]

\* The message load_all_messages builds from a fetched row.
MessageOf(r) ==
    [type |-> IF r.role = "Human" THEN "human" ELSE "ai",
     content |-> r.content,
     ts |-> r.timestamp]

Remove(q, i) == SubSeq(q, 1, i - 1) \o SubSeq(q, i + 1, Len(q))

MinTimestamp(rows) ==
    CHOOSE x \in {rows[i].timestamp : i \in DOMAIN rows} :
        \A j \in DOMAIN rows : x <= rows[j].timestamp

\* ORDER BY dropped from the SELECT: the rows come in insertion order.
InsertionOrder(rows) == {rows}

\* The positions of the rows that may come first: those with the least
\* timestamp (of equal rows, the first stands for all).
Firsts(rows) ==
    {k \in DOMAIN rows :
        /\ rows[k].timestamp = MinTimestamp(rows)
        /\ \A j \in 1..(k - 1) : rows[j] # rows[k]}

\* ORDER BY timestamp ASC: every ordering of the rows that is ascending by
\* timestamp (SQL leaves the order of rows with equal timestamps open).
RECURSIVE OrderBy(_)
OrderBy(rows) ==
    IF rows = <<>> THEN {<<>>}
    ELSE UNION { { <<rows[i]>> \o q : q \in OrderBy(Remove(rows, i)) } : i \in Firsts(rows) }

RECURSIVE SelectWhere(_, _)
\* WHERE session_id = ?
SelectWhere(rows, s) ==
    IF rows = <<>> THEN <<>>
    ELSE IF rows[1].session_id = s THEN <<rows[1]>> \o SelectWhere(Tail(rows), s)
    ELSE SelectWhere(Tail(rows), s)

\* SELECT role, content, timestamp FROM chat_history WHERE session_id = ?
\* ORDER BY timestamp ASC: the possible results.
Select(rows, s) == OrderBy(SelectWhere(rows, s))

MapMessages(rows) == [i \in DOMAIN rows |-> MessageOf(rows[i])]

RECURSIVE DeleteWhere(_, _, _)
\* DELETE FROM chat_history WHERE session_id = ? AND timestamp = ?: the rows
\* that remain.
DeleteWhere(rows, s, ts) ==
    IF rows = <<>> THEN <<>>
    ELSE IF rows[1].session_id = s /\ rows[1].timestamp = ts
         THEN DeleteWhere(Tail(rows), s, ts)
         ELSE <<rows[1]>> \o DeleteWhere(Tail(rows), s, ts)

(***************************************************************************)
(* ChatHistory.summarize_if_necessary                                      *)
(***************************************************************************)
\* As if the test were >= (the boundary compacts).
NeedsSummaryAtBoundary(msgs) == Len(msgs) - max_recent >= summarize_threshold

\* if len(self._messages) - self._max_recent > self._summarize_threshold
NeedsSummary(msgs) == Len(msgs) - max_recent > summarize_threshold

\* As if the list were cut down to recents before the failing statement.
summarize_cutting_first(msgs) ==
    IF NeedsSummary(msgs)
    THEN [messages |-> SubSeq(msgs, Len(msgs) - max_recent + 1, Len(msgs)),
          outcome |-> "raised"]
    ELSE [messages |-> msgs, outcome |-> "returned"]

\* Below the threshold the call returns.  Above it, the first statement of
\* the branch, recents = self._messages[-self.max_recent:], reads the
\* attribute max_recent, which no ChatHistory has (__init__ sets only
\* _max_recent): the call raises AttributeError there, before the summarizer
\* is called and before _messages or the store is touched.  The result is
\* the message list the call leaves and how the call ended.
summarize_if_necessary(msgs) ==
    IF NeedsSummary(msgs)
    THEN [messages |-> msgs, outcome |-> "raised"]
    ELSE [messages |-> msgs, outcome |-> "returned"]

(***************************************************************************)
(* Token usage                                                             *)
(***************************************************************************)
\* As if the third line added the output count once more (a copied line).
update_output_twice(usage, reported) ==
    TokenUsage(usage.input_tokens + reported.input_tokens,
               usage.output_tokens + reported.output_tokens,
               usage.total_tokens + reported.output_tokens)

\* As if the three lines assigned the reported counts (= for +=).
update_replaces(usage, reported) ==
    TokenUsage(reported.input_tokens, reported.output_tokens, reported.total_tokens)

\* update_token_usage(usage, response)
update_token_usage(usage, reported) ==
    TokenUsage(usage.input_tokens + reported.input_tokens,
               usage.output_tokens + reported.output_tokens,
               usage.total_tokens + reported.total_tokens)

\* get_statistic(session_id)
get_statistic(s) == IF s \in DOMAIN stats THEN stats[s] ELSE ChatStatistic

(***************************************************************************)
(* Helpers on the model's state                                            *)
(***************************************************************************)
ChatBusy(s) == \E t \in Tasks : pc[t] # "idle" /\ sess[t] = s
FlushBusy(s) == fpc[s] \notin {"idle", "done", "raised", "failed"}
ClearBusy(s) == db_lock[s] = "clear"

\* The per-session state of the history cache.
SessionState(s) ==
    IF s \notin histories THEN "Uninitialized"
    ELSE IF \E t \in Tasks : sess[t] = s /\ pc[t] \in {"ensure", "select"}
         THEN "Loading"
         ELSE "Ready"

Init ==
    /\ runnables = {}
    /\ prompts = {}
    /\ histories = {}
    /\ stats = << >>
    /\ messages = [s \in Sessions |-> <<>>]
    /\ db_initialized = [s \in Sessions |-> FALSE]
    /\ db_lock = [s \in Sessions |-> "free"]
    /\ db = [s \in Sessions |-> <<>>]
    /\ stats_file = << >>
    /\ pc = [t \in Tasks |-> "idle"]
    /\ sess = [t \in Tasks |-> "s1"]
    /\ input = [t \in Tasks |-> "a"]
    /\ now = [t \in Tasks |-> 0]
    /\ result = "none"
    /\ fpc = [s \in Sessions |-> "idle"]
    /\ fidx = [s \in Sessions |-> 0]
    /\ ftx = [s \in Sessions |-> <<>>]
    /\ spc = "idle"
    /\ clock = 1
    /\ calls = 0
    /\ clears = 0
    /\ saves = 0
    /\ runs = 0
    /\ built = [s \in Sessions |-> 0]
    /\ loads = [s \in Sessions |-> 0]
    /\ loaded_rows = [s \in Sessions |-> 0]
    /\ commits = [s \in Sessions |-> 0]
    /\ flushed = [s \in Sessions |-> <<>>]
    /\ quiet = [s \in Sessions |-> FALSE]
    /\ serial = [s \in Sessions |-> TRUE]
    /\ returned = NoReturn
    /\ handled = <<>>
    /\ closing = NotClosing
    /\ notified = NoRun


(***************************************************************************)
(* ChatInstances.chat                                                      *)
(***************************************************************************)
\* Handlers are interchangeable: a new call runs in the first idle one.
FirstIdle(t) == \A u \in Tasks : pc[u] = "idle" => (u = t \/ (t = "t1" /\ u = "t2"))

\* Nothing of the session exists yet, in memory or on disk.
Fresh(s) ==
    /\ s \notin histories /\ s \notin DOMAIN stats /\ s \notin DOMAIN stats_file
    /\ db[s] = <<>> /\ commits[s] = 0 /\ serial[s]

\* Session ids are interchangeable too: of two sessions nothing exists of,
\* the first is contacted first.
FirstFresh(s) == Fresh(s) => \A x \in Sessions : Fresh(x) => (x = s \/ (s = "s1" /\ x = "s2"))

\* The bound on calls: every call and every session in use counts.
CanCall(s) == calls + Cardinality({x \in Sessions : ~Fresh(x)} \cup {s}) <= MaxChats

\* chat() returns or raises: its locals are gone.
Return(t) ==
    /\ pc' = [pc EXCEPT ![t] = "idle"]
    /\ sess' = [sess EXCEPT ![t] = "s1"]
    /\ input' = [input EXCEPT ![t] = "a"]
    /\ now' = [now EXCEPT ![t] = 0]

\* An operation on session s starts: it overlaps if another is in progress.
Overlap(s) ==
    [serial EXCEPT ![s] = serial[s] /\ ~ChatBusy(s) /\ ~FlushBusy(s) /\ ~ClearBusy(s)]

\* chat() on a session that has a runnable: the runnable is looked up, now
\* is read and ainvoke starts (it reads the history and awaits the model).
ChatExisting(t) ==
    /\ pc[t] = "idle"
    /\ FirstIdle(t)
    /\ \E s \in runnables, text \in Inputs :
        /\ CanCall(s)
        /\ sess' = [sess EXCEPT ![t] = s]
        /\ input' = [input EXCEPT ![t] = text]
        /\ serial' = Overlap(s)
    /\ now' = [now EXCEPT ![t] = clock]
    /\ clock' = clock + 1
    /\ pc' = [pc EXCEPT ![t] = "invoke"]
    /\ calls' = calls + 1
    /\ returned' = NoReturn
    /\ UNCHANGED <<cogs, registry, stats, messages, db_initialized, db_lock, db, stats_file,
                   result, fpc, fidx, ftx, spc, saves, runs, clears, built, loads, loaded_rows, commits,
                   flushed, quiet>>

\* As if create_instance stored a new ChatStatistic unconditionally.
WithStatisticReset(s) ==
    [x \in DOMAIN stats \cup {s} |-> IF x = s THEN ChatStatistic ELSE stats[x]]

\* create_instance: the ChatStatistic entry, when missing.
WithStatistic(s) ==
    IF s \in DOMAIN stats THEN stats
    ELSE [x \in DOMAIN stats \cup {s} |-> IF x = s THEN ChatStatistic ELSE stats[x]]

\* As if _init_history constructed and loaded a ChatHistory on every call,
\* whether or not _histories holds one for the session.
ChatCreateReplacing(t) ==
    /\ pc[t] = "idle"
    /\ FirstIdle(t)
    /\ \E s \in Sessions \ runnables, text \in Inputs :
        /\ CanCall(s)
        /\ FirstFresh(s)
        /\ sess' = [sess EXCEPT ![t] = s]
        /\ input' = [input EXCEPT ![t] = text]
        /\ serial' = Overlap(s)
        /\ stats' = WithStatistic(s)
        /\ prompts' = prompts \cup {s}
        /\ histories' = histories \cup {s}
        /\ messages' = [messages EXCEPT ![s] = <<>>]
        /\ db_initialized' = [db_initialized EXCEPT ![s] = FALSE]
        /\ db_lock' = [db_lock EXCEPT ![s] = t]
        /\ loads' = [loads EXCEPT ![s] = @ + 1]
        /\ loaded_rows' = loaded_rows
    /\ pc' = [pc EXCEPT ![t] = "ensure"]
    /\ calls' = calls + 1
    /\ returned' = NoReturn
    /\ UNCHANGED <<cogs, runnables, db, stats_file, now, result, fpc, fidx, ftx, spc, clock,
                   saves, runs, clears, built, commits, flushed, quiet>>

\* chat() on a session without a runnable whose history does not exist yet:
\* create_instance adds the statistic and the prompt, _init_history
\* constructs the ChatHistory and awaits load_all_messages, which enters
\* _ensure_db, takes the new history's lock and awaits the connection.
ChatCreate(t) ==
    /\ pc[t] = "idle"
    /\ FirstIdle(t)
    /\ \E s \in Sessions \ runnables, text \in Inputs :
        /\ CanCall(s)
        /\ s \notin histories
        /\ FirstFresh(s)
        /\ sess' = [sess EXCEPT ![t] = s]
        /\ input' = [input EXCEPT ![t] = text]
        /\ serial' = Overlap(s)
        /\ stats' = WithStatistic(s)
        /\ prompts' = prompts \cup {s}
        /\ histories' = histories \cup {s}
        /\ messages' = [messages EXCEPT ![s] = <<>>]
        /\ db_initialized' = [db_initialized EXCEPT ![s] = FALSE]
        /\ db_lock' = [db_lock EXCEPT ![s] = t]
        /\ loads' = [loads EXCEPT ![s] = @ + 1]
        /\ loaded_rows' = loaded_rows
    /\ pc' = [pc EXCEPT ![t] = "ensure"]
    /\ calls' = calls + 1
    /\ returned' = NoReturn
    /\ UNCHANGED <<cogs, runnables, db, stats_file, now, result, fpc, fidx, ftx, spc, clock,
                   saves, runs, clears, built, commits, flushed, quiet>>

\* chat() on a session without a runnable whose history is already in
\* _histories (another call's create_instance is awaiting the load):
\* _init_history returns at once, create_instance builds a runnable of its
\* own and stores it, and chat goes on to ainvoke.
ChatJoin(t) ==
    /\ pc[t] = "idle"
    /\ FirstIdle(t)
    /\ \E s \in Sessions \ runnables, text \in Inputs :
        /\ CanCall(s)
        /\ s \in histories
        /\ sess' = [sess EXCEPT ![t] = s]
        /\ input' = [input EXCEPT ![t] = text]
        /\ serial' = Overlap(s)
        /\ stats' = WithStatistic(s)
        /\ prompts' = prompts \cup {s}
        /\ runnables' = runnables \cup {s}
        /\ built' = [built EXCEPT ![s] = @ + 1]
    /\ now' = [now EXCEPT ![t] = clock]
    /\ clock' = clock + 1
    /\ pc' = [pc EXCEPT ![t] = "invoke"]
    /\ calls' = calls + 1
    /\ returned' = NoReturn
    /\ UNCHANGED <<cogs, histories, messages, db_initialized, db_lock, db, stats_file, result,
                   fpc, fidx, ftx, spc, saves, runs, clears, loads, loaded_rows, commits, flushed, quiet>>

\* load_all_messages after _ensure_db: the table exists, the lock is
\* released, the flag is set; then self._messages.clear() and the await of
\* the connection for the SELECT.
EnsureDone(t) ==
    /\ pc[t] = "ensure"
    /\ db_lock' = [db_lock EXCEPT ![sess[t]] = "free"]
    /\ db_initialized' = [db_initialized EXCEPT ![sess[t]] = TRUE]
    /\ messages' = [messages EXCEPT ![sess[t]] = <<>>]
    /\ quiet' = [quiet EXCEPT ![sess[t]] = FALSE]
    /\ pc' = [pc EXCEPT ![t] = "select"]
    /\ returned' = NoReturn
    /\ UNCHANGED <<cogs, registry, stats, db, stats_file, sess, input, now, result, fpc, fidx,
                   ftx, spc, clock, counters, built, loads, loaded_rows, commits, flushed, serial>>

\* The fetched rows are appended to _messages; create_instance stores the
\* runnable; chat reads now and starts ainvoke.
LoadDone(t) ==
    /\ pc[t] = "select"
    /\ \E rows \in Select(db[sess[t]], sess[t]) :
        /\ messages' = [messages EXCEPT ![sess[t]] = @ \o MapMessages(rows)]
        /\ loaded_rows' = [loaded_rows EXCEPT ![sess[t]] = Len(rows)]
    /\ quiet' = [quiet EXCEPT ![sess[t]] = FALSE]
    /\ runnables' = runnables \cup {sess[t]}
    /\ built' = [built EXCEPT ![sess[t]] = @ + 1]
    /\ now' = [now EXCEPT ![t] = clock]
    /\ clock' = clock + 1
    /\ pc' = [pc EXCEPT ![t] = "invoke"]
    /\ returned' = NoReturn
    /\ UNCHANGED <<cogs, prompts, histories, stats, db_initialized, db_lock, db, stats_file,
                   sess, input, result, fpc, fidx, ftx, spc, counters, loads, commits,
                   flushed, serial>>

\* The messages RunnableWithMessageHistory adds to the history when the
\* completion succeeds: the input, which carries no timestamp, and the
\* response, which chat() stamps with now.
TurnPair(text, reply, ts) == <<HumanMessage(text), AIMessage(reply, ts)>>

\* As if the count went up by one per message added to the history.
CountedPerMessage(stat, usage) ==
    [chat_count |-> stat.chat_count + 2,
     tokusage |-> update_token_usage(stat.tokusage, usage)]

\* self._stats[session_id].chat_count += 1; update_token_usage(...)
Counted(stat, usage) ==
    [chat_count |-> stat.chat_count + 1,
     tokusage |-> update_token_usage(stat.tokusage, usage)]

\* ainvoke returns a response: the turn pair is in the history, the
\* statistic is updated, summarize_if_necessary is called, and chat returns
\* response.content unless that call raised.
ChatReply(t) ==
    /\ pc[t] = "invoke"
    /\ \E reply \in Replies, usage \in Usages :
        LET s == sess[t]
            after == summarize_if_necessary(messages[s] \o TurnPair(input[t], reply, now[t]))
        IN  /\ messages' = [messages EXCEPT ![s] = after.messages]
            /\ stats' = [stats EXCEPT ![s] = Counted(stats[s], usage)]
            /\ result' = IF after.outcome = "raised" THEN "raised" ELSE "reply"
            /\ quiet' = [quiet EXCEPT ![s] = FALSE]
    /\ Return(t)
    /\ returned' = NoReturn
    /\ UNCHANGED <<cogs, registry, db_initialized, db_lock, db, stats_file,
                   fpc, fidx, ftx, spc, clock, counters, built, loads, loaded_rows, commits, flushed,
                   serial>>

\* As if the input were added to the history before the completion is awaited.
ChatFailKeepsInput(t) ==
    /\ pc[t] = "invoke"
    /\ result' = "fallback"
    /\ messages' = [messages EXCEPT ![sess[t]] = Append(@, HumanMessage(input[t]))]
    /\ Return(t)
    /\ returned' = NoReturn
    /\ UNCHANGED <<cogs, registry, stats, db_initialized, db_lock, db, stats_file,
                   fpc, fidx, ftx, spc, clock, counters, built, loads, loaded_rows,
                   commits, flushed, quiet, serial>>

\* ainvoke raises: chat returns the fallback text.
ChatFail(t) ==
    /\ pc[t] = "invoke"
    /\ result' = "fallback"
    /\ Return(t)
    /\ returned' = NoReturn
    /\ UNCHANGED <<cogs, registry, stats, messages, db_initialized, db_lock, db, stats_file,
                   fpc, fidx, ftx, spc, clock, counters, built, loads, loaded_rows,
                   commits, flushed, quiet, serial>>


(***************************************************************************)
(* ChatInstances.save_all_session and ChatHistory.flush_to_db              *)
(***************************************************************************)
\* DChanBot.close() runs the cogs' shutdown hooks; the chat cog's
\* on_shutdown() (the only hook, and the only caller) awaits
\* save_all_session(): asyncio.gather starts one _flush_and_summarize task
\* per history in _histories.
SaveStart ==
    /\ spc # "running"
    /\ saves < MaxSaves
    /\ \A s \in Sessions : ~FlushBusy(s)
    /\ fpc' = [s \in Sessions |-> IF s \in histories THEN "start" ELSE "idle"]
    /\ serial' = [s \in Sessions |->
                    IF s \in histories THEN serial[s] /\ ~ChatBusy(s) /\ ~ClearBusy(s)
                    ELSE serial[s]]
    /\ spc' = "running"
    /\ saves' = saves + 1
    /\ returned' = NoReturn
    /\ UNCHANGED <<cogs, registry, stats, messages, db_initialized, db_lock, db, stats_file,
                   pc, sess, input, now, result, fidx, ftx, clock, calls, runs, clears, built,
                   loads, loaded_rows, commits, flushed, quiet>>

\* As if the histories shared one lock (a class attribute or a module-level
\* lock in place of the one made in __init__).
FlushBeginSharedLock(s) ==
    /\ fpc[s] = "start"
    /\ \A x \in Sessions : db_lock[x] = "free"
    /\ db_initialized' = [db_initialized EXCEPT ![s] = TRUE]
    /\ db_lock' = [db_lock EXCEPT ![s] = "flush"]
    /\ fidx' = [fidx EXCEPT ![s] = 0]
    /\ ftx' = [ftx EXCEPT ![s] = <<>>]
    /\ fpc' = [fpc EXCEPT ![s] = "rows"]
    /\ returned' = NoReturn
    /\ UNCHANGED <<cogs, registry, stats, messages, db, stats_file, pc, sess, input, now,
                   result, spc, clock, counters, built, loads, loaded_rows, commits, flushed, quiet,
                   serial>>

\* flush_to_db: _ensure_db returns at once when the flag is set and needs
\* the lock to create the table otherwise; then async with self._db_lock
\* and the connection.  The task goes on once the lock is free.
FlushBegin(s) ==
    /\ fpc[s] = "start"
    /\ db_lock[s] = "free"
    /\ db_initialized' = [db_initialized EXCEPT ![s] = TRUE]
    /\ db_lock' = [db_lock EXCEPT ![s] = "flush"]
    /\ fidx' = [fidx EXCEPT ![s] = 0]
    /\ ftx' = [ftx EXCEPT ![s] = <<>>]
    /\ fpc' = [fpc EXCEPT ![s] = "rows"]
    /\ returned' = NoReturn
    /\ UNCHANGED <<cogs, registry, stats, messages, db, stats_file, pc, sess, input, now,
                   result, spc, clock, counters, built, loads, loaded_rows, commits, flushed, quiet,
                   serial>>

\* As if every INSERT were committed when it is executed.
FlushRowAutocommit(s) ==
    /\ fpc[s] = "rows"
    /\ fidx[s] < Len(messages[s])
    /\ db' = [db EXCEPT ![s] = Append(@, RowOf(s, messages[s][fidx[s] + 1]))]
    /\ fidx' = [fidx EXCEPT ![s] = @ + 1]
    /\ returned' = NoReturn
    /\ UNCHANGED <<cogs, registry, stats, messages, db_initialized, db_lock, stats_file,
                   pc, sess, input, now, result, fpc, ftx, spc, clock, counters, built, loads, loaded_rows,
                   commits, flushed, quiet, serial>>

\* One turn of `for msg in self._messages`: the list iterator yields the
\* element at its position, if the list (as it is now) has one, and the
\* INSERT is awaited.
FlushRow(s) ==
    /\ fpc[s] = "rows"
    /\ fidx[s] < Len(messages[s])
    /\ ftx' = [ftx EXCEPT ![s] = Append(@, RowOf(s, messages[s][fidx[s] + 1]))]
    /\ fidx' = [fidx EXCEPT ![s] = @ + 1]
    /\ returned' = NoReturn
    /\ UNCHANGED <<cogs, registry, stats, messages, db_initialized, db_lock, db, stats_file,
                   pc, sess, input, now, result, fpc, spc, clock, counters, built, loads, loaded_rows,
                   commits, flushed, quiet, serial>>

\* The rows of the in-memory list, as flush_to_db inserts them.
RowsOf(s, msgs) == [i \in DOMAIN msgs |-> RowOf(s, msgs[i])]

\* The iterator is exhausted: await db.commit() makes the inserted rows
\* durable; the connection is closed and the lock released; flush_to_db
\* returns and _flush_and_summarize calls summarize_if_necessary.
FlushCommit(s) ==
    /\ fpc[s] = "rows"
    /\ fidx[s] >= Len(messages[s])
    /\ db' = [db EXCEPT ![s] = @ \o ftx[s]]
    /\ ftx' = [ftx EXCEPT ![s] = <<>>]
    /\ commits' = [commits EXCEPT ![s] = @ + 1]
    /\ flushed' = [flushed EXCEPT ![s] = messages[s]]
    /\ quiet' = [quiet EXCEPT ![s] = (ftx[s] = RowsOf(s, messages[s]))]
    /\ db_lock' = [db_lock EXCEPT ![s] = "free"]
    /\ LET after == summarize_if_necessary(messages[s])
       IN  /\ messages' = [messages EXCEPT ![s] = after.messages]
           /\ fpc' = [fpc EXCEPT ![s] =
                        IF after.outcome = "raised" THEN "raised" ELSE "done"]
    /\ returned' = NoReturn
    /\ UNCHANGED <<cogs, registry, stats, db_initialized, stats_file, pc,
                   sess, input, now, result, fidx, spc, clock, counters, built, loads, loaded_rows,
                   serial>>

\* As if the lock were taken with acquire() and released only after the
\* commit, so that an exception leaves flush_to_db with the lock held.
FlushFailKeepsLock(s) ==
    /\ fpc[s] = "rows"
    /\ ftx' = [ftx EXCEPT ![s] = <<>>]
    /\ fpc' = [fpc EXCEPT ![s] = "failed"]
    /\ returned' = NoReturn
    /\ UNCHANGED <<cogs, registry, stats, messages, db_initialized, db_lock, db, stats_file,
                   pc, sess, input, now, result, fidx, spc, clock, counters, built, loads,
                   loaded_rows, commits, flushed, quiet, serial>>

\* A statement of flush_to_db raises (the connection cannot be opened, an
\* INSERT or the commit fails) or the task is cancelled at one of its
\* awaits: the exception leaves both `async with` blocks, so the connection
\* is closed without a commit, which discards the rows inserted so far, and
\* the lock is released.  _flush_and_summarize ends with the exception;
\* summarize_if_necessary is not called.
FlushFail(s) ==
    /\ fpc[s] = "rows"
    /\ ftx' = [ftx EXCEPT ![s] = <<>>]
    /\ db_lock' = [db_lock EXCEPT ![s] = "free"]
    /\ fpc' = [fpc EXCEPT ![s] = "failed"]
    /\ returned' = NoReturn
    /\ UNCHANGED <<cogs, registry, stats, messages, db_initialized, db, stats_file, pc, sess,
                   input, now, result, fidx, spc, clock, counters, built, loads, loaded_rows, commits,
                   flushed, quiet, serial>>

\* dict_to_json followed by dict_from_json: model_dump of each ChatStatistic
\* and its reconstruction from the dumped fields.
Dumped(st) ==
    [s \in DOMAIN st |->
        [chat_count |-> st[s].chat_count,
         tokusage |-> TokenUsage(st[s].tokusage.input_tokens,
                                 st[s].tokusage.output_tokens,
                                 st[s].tokusage.total_tokens)]]

(***************************************************************************)
(* ChatHistory.clear, aclear                                                *)
(***************************************************************************)
RECURSIVE DeleteSession(_, _)
\* DELETE FROM chat_history WHERE session_id = ?: the rows that remain.
DeleteSession(rows, s) ==
    IF rows = <<>> THEN <<>>
    ELSE IF rows[1].session_id = s THEN DeleteSession(Tail(rows), s)
    ELSE <<rows[1]>> \o DeleteSession(Tail(rows), s)

\* aclear() is called on a session's history: it takes the lock (waiting
\* until it is free) and awaits the connection, the DELETE and the commit.
ClearBegin(s) ==
    /\ s \in histories
    /\ clears < MaxClears
    /\ clears' = clears + 1
    /\ db_lock[s] = "free"
    /\ db_lock' = [db_lock EXCEPT ![s] = "clear"]
    /\ serial' = Overlap(s)
    /\ returned' = NoReturn
    /\ UNCHANGED <<cogs, registry, stats, messages, db_initialized, db, stats_file, pc, sess,
                   input, now, result, fpc, fidx, ftx, spc, clock, calls, saves, runs,
                   built, loads, loaded_rows, commits, flushed, quiet>>

\* clear(): self._messages.clear(), and nothing else.
Clear(s) ==
    /\ s \in histories
    /\ clears < MaxClears
    /\ clears' = clears + 1
    /\ messages' = [messages EXCEPT ![s] = <<>>]
    /\ quiet' = [quiet EXCEPT ![s] = FALSE]
    /\ serial' = Overlap(s)
    /\ returned' = [call |-> "clear", session |-> s]
    /\ UNCHANGED <<cogs, registry, stats, db_initialized, db_lock, db, stats_file, pc, sess,
                   input, now, result, fpc, fidx, ftx, spc, clock, calls, saves, runs,
                   built, loads, loaded_rows, commits, flushed>>

\* As if aclear() ended after the list's clear() without the DELETE.
ClearMemoryOnly(s) ==
    /\ db_lock[s] = "clear"
    /\ db_lock' = [db_lock EXCEPT ![s] = "free"]
    /\ messages' = [messages EXCEPT ![s] = <<>>]
    /\ quiet' = [quiet EXCEPT ![s] = FALSE]
    /\ returned' = [call |-> "aclear", session |-> s]
    /\ UNCHANGED <<cogs, registry, stats, db_initialized, db, stats_file, pc, sess, input, now,
                   result, fpc, fidx, ftx, spc, clock, counters, built, loads, loaded_rows, commits,
                   flushed, serial>>

\* The DELETE is committed, the connection closed and the lock released;
\* then self._messages.clear().
ClearDone(s) ==
    /\ db_lock[s] = "clear"
    /\ db' = [db EXCEPT ![s] = DeleteSession(@, s)]
    /\ db_lock' = [db_lock EXCEPT ![s] = "free"]
    /\ messages' = [messages EXCEPT ![s] = <<>>]
    /\ flushed' = [flushed EXCEPT ![s] = <<>>]
    /\ quiet' = [quiet EXCEPT ![s] = FALSE]
    /\ returned' = [call |-> "aclear", session |-> s]
    /\ UNCHANGED <<cogs, registry, stats, db_initialized, stats_file, pc, sess, input, now,
                   result, fpc, fidx, ftx, spc, clock, counters, built, loads, loaded_rows, commits,
                   serial>>

\* An aiosqlite call of aclear() raises: the exception leaves both
\* `async with` blocks, nothing is deleted, the lock is released, and the
\* list is not cleared.
ClearFail(s) ==
    /\ db_lock[s] = "clear"
    /\ db_lock' = [db_lock EXCEPT ![s] = "free"]
    /\ returned' = NoReturn
    /\ UNCHANGED <<cogs, registry, stats, messages, db_initialized, db, stats_file, pc, sess,
                   input, now, result, fpc, fidx, ftx, spc, clock, counters, built, loads, loaded_rows,
                   commits, flushed, quiet, serial>>

\* As if the tasks were started and not awaited.
SaveFinishEarly ==
    /\ spc = "running"
    /\ stats_file' = Dumped(stats)
    /\ spc' = "done"
    /\ returned' = NoReturn
    /\ UNCHANGED <<cogs, registry, stats, messages, db_initialized, db_lock, db, pc, sess,
                   input, now, result, fpc, fidx, ftx, clock, counters, built, loads, loaded_rows,
                   commits, flushed, quiet, serial>>

\* Every task of the gather has returned: the statistics are written to
\* stats.json and save_all_session returns; so does on_shutdown, and
\* close() goes on past the hooks.
SaveFinish ==
    /\ spc = "running"
    /\ \A s \in Sessions : fpc[s] \in {"idle", "done"}
    /\ stats_file' = Dumped(stats)
    /\ spc' = "done"
    /\ returned' = NoReturn
    /\ UNCHANGED <<cogs, registry, stats, messages, db_initialized, db_lock, db, pc, sess,
                   input, now, result, fpc, fidx, ftx, clock, counters, built, loads, loaded_rows,
                   commits, flushed, quiet, serial>>

\* A task of the gather has raised: gather (return_exceptions is not set)
\* raises in save_all_session, which ends without writing stats.json; the
\* other tasks keep running.  The exception leaves on_shutdown and close()
\* (the try around the hook is commented out).
SaveRaise ==
    /\ spc = "running"
    /\ \E s \in Sessions : fpc[s] \in {"raised", "failed"}
    /\ spc' = "raised"
    /\ returned' = NoReturn
    /\ UNCHANGED <<cogs, registry, stats, messages, db_initialized, db_lock, db, stats_file,
                   pc, sess, input, now, result, fpc, fidx, ftx, clock, counters, built,
                   loads, loaded_rows, commits, flushed, quiet, serial>>

\* CharChat.on_shutdown is suspended in its await of save_all_session().
InShutdownHook == spc = "running"

\* DChanBot.close() has gone past the loop over the hooks.
PastShutdownHook == spc = "done"

(***************************************************************************)
(* The process ends and a new one starts: ChatInstances.__init__           *)
(***************************************************************************)
\* Everything in memory is gone, open transactions with it (a flush may be
\* under way); the store files and stats.json remain, and _stats is read
\* from stats.json.
Restart ==
    /\ runs < MaxRuns
    /\ \A t \in Tasks : pc[t] = "idle"
    /\ runs' = runs + 1
    /\ runnables' = {}
    /\ prompts' = {}
    /\ histories' = {}
    /\ stats' = Dumped(stats_file)
    /\ messages' = [s \in Sessions |-> <<>>]
    /\ db_initialized' = [s \in Sessions |-> FALSE]
    /\ db_lock' = [s \in Sessions |-> "free"]
    /\ pc' = [t \in Tasks |-> "idle"]
    /\ result' = "none"
    /\ fpc' = [s \in Sessions |-> "idle"]
    /\ fidx' = [s \in Sessions |-> 0]
    /\ ftx' = [s \in Sessions |-> <<>>]
    /\ spc' = "idle"
    /\ built' = [s \in Sessions |-> 0]
    /\ loads' = [s \in Sessions |-> 0]
    /\ loaded_rows' = [s \in Sessions |-> 0]
    /\ quiet' = [s \in Sessions |-> FALSE]
    /\ returned' = NoReturn
    /\ UNCHANGED <<cogs, db, stats_file, sess, input, now, clock, calls, saves, clears, commits,
                   flushed, serial>>

Next ==
    \/ \E t \in Tasks : ChatExisting(t)
    \/ \E t \in Tasks : ChatCreate(t)
    \/ \E t \in Tasks : ChatJoin(t)
    \/ \E t \in Tasks : EnsureDone(t)
    \/ \E t \in Tasks : LoadDone(t)
    \/ \E t \in Tasks : ChatReply(t)
    \/ \E t \in Tasks : ChatFail(t)
    \/ SaveStart
    \/ \E s \in Sessions : FlushBegin(s)
    \/ \E s \in Sessions : FlushRow(s)
    \/ \E s \in Sessions : FlushCommit(s)
    \/ \E s \in Sessions : FlushFail(s)
    \/ SaveFinish
    \/ SaveRaise
    \/ Restart

Spec == Init /\ [][Next]_vars

\* The program with a client of ChatHistory that calls clear() and aclear()
\* (nothing in the bot calls them).
NextWithClear ==
    \/ Next
    \/ \E s \in Sessions : Clear(s)
    \/ \E s \in Sessions : ClearBegin(s)
    \/ \E s \in Sessions : ClearDone(s)
    \/ \E s \in Sessions : ClearFail(s)

SpecWithClear == Init /\ [][NextWithClear]_vars

(***************************************************************************)
(* One run of the process under fair scheduling, with the clients of       *)
(* clear() and aclear() and with a schema creation that can fail            *)
(***************************************************************************)
\* The CREATE TABLE or its commit raises in _ensure_db, called by
\* load_all_messages: the exception leaves both `async with` blocks (the
\* lock is released) before the flag is set, and then load_all_messages,
\* _init_history, create_instance and chat().  The history stays in
\* _histories; no runnable is stored.
EnsureFail(t) ==
    /\ pc[t] = "ensure"
    /\ db_lock' = [db_lock EXCEPT ![sess[t]] = "free"]
    /\ result' = "raised"
    /\ Return(t)
    /\ returned' = NoReturn
    /\ UNCHANGED <<cogs, registry, stats, messages, db_initialized, db, stats_file,
                   fpc, fidx, ftx, spc, clock, counters, built, loads, loaded_rows,
                   commits, flushed, quiet, serial>>

\* on_shutdown's save_all_session(), called once in the run.
SaveOnce == saves < MaxFairSaves /\ SaveStart

NextRun ==
    \/ \E t \in Tasks : ChatExisting(t)
    \/ \E t \in Tasks : ChatCreate(t)
    \/ \E t \in Tasks : ChatJoin(t)
    \/ \E t \in Tasks : EnsureDone(t)
    \/ \E t \in Tasks : EnsureFail(t)
    \/ \E t \in Tasks : LoadDone(t)
    \/ \E t \in Tasks : ChatReply(t)
    \/ \E t \in Tasks : ChatFail(t)
    \/ SaveOnce
    \/ \E s \in Sessions : FlushBegin(s)
    \/ \E s \in Sessions : FlushRow(s)
    \/ \E s \in Sessions : FlushCommit(s)
    \/ \E s \in Sessions : FlushFail(s)
    \/ SaveFinish
    \/ SaveRaise
    \/ \E s \in Sessions : ClearBegin(s)
    \/ \E s \in Sessions : ClearDone(s)
    \/ \E s \in Sessions : ClearFail(s)

\* The event loop runs every task that is ready, and the awaited store and
\* model calls end (by returning or by raising); asyncio.Lock wakes its
\* waiters in the order of their arrival, so a task waiting for the lock
\* gets it when it is released often enough.  Nothing obliges a client to
\* start an operation.
Fairness ==
    /\ \A t \in Tasks : WF_vars(EnsureDone(t) \/ EnsureFail(t))
    /\ \A t \in Tasks : WF_vars(LoadDone(t))
    /\ \A t \in Tasks : WF_vars(ChatReply(t) \/ ChatFail(t))
    /\ \A s \in Sessions : SF_vars(FlushBegin(s))
    /\ \A s \in Sessions : WF_vars(FlushRow(s))
    /\ \A s \in Sessions : WF_vars(FlushCommit(s) \/ FlushFail(s))
    /\ \A s \in Sessions : WF_vars(ClearDone(s) \/ ClearFail(s))
    /\ WF_vars(SaveFinish \/ SaveRaise)

SpecFair == Init /\ [][NextRun]_vars /\ Fairness

(***************************************************************************)
(* DChanBot.close: the cogs' shutdown hooks, the registries, the           *)
(* underlying close                                                        *)
(***************************************************************************)
\* The models registered with the configuration registry (bot.py:47,
\* chat.py:28, schednotifier.py:46); none is registered with the data
\* registry.
ConfModels == {"dchanbot", "chat", "schednotifier"}
DataModels == {}

\* FileModelRegistry.save_all: model.save() for every registered model, an
\* exception of a save being printed and dropped; the models written.
save_all(models, failing) == models \ failing

\* The bot is connected: events are dispatched and close() can be called.
Connected == closing.stage = "open"

OnMessageExisting(t) == Connected /\ ChatExisting(t)
OnMessageCreate(t) == Connected /\ ChatCreate(t)
OnMessageJoin(t) == Connected /\ ChatJoin(t)

\* close() is called: of the cogs (SchedNotifier, CharChat) only CharChat
\* has an on_shutdown, which close() awaits; it awaits save_all_session().
CloseBegin == Connected /\ SaveStart

\* Every task of the gather has returned: stats.json is written,
\* save_all_session and on_shutdown return, the loop over the cogs ends, and
\* close() saves the two registries and starts the underlying close.
CloseSaveAll ==
    /\ spc = "running"
    /\ \A s \in Sessions : fpc[s] \in {"idle", "done"}
    /\ stats_file' = Dumped(stats)
    /\ spc' = "done"
    /\ \E failing \in SUBSET (DataModels \cup ConfModels) :
        closing' = [stage |-> "saved",
                    written |-> save_all(DataModels, failing) \cup save_all(ConfModels, failing)]
    /\ returned' = NoReturn
    /\ UNCHANGED <<handled, notified, registry, stats, messages, db_initialized, db_lock, db, pc, sess,
                   input, now, result, fpc, fidx, ftx, clock, counters, built, loads, loaded_rows,
                   commits, flushed, quiet, serial>>

\* await super().close() returns: the bot is disconnected.
CloseSuper ==
    /\ closing.stage = "saved"
    /\ closing' = [closing EXCEPT !.stage = "closed"]
    /\ UNCHANGED <<instances, handled, notified>>

NextClose ==
    \/ \E t \in Tasks : OnMessageExisting(t)
    \/ \E t \in Tasks : OnMessageCreate(t)
    \/ \E t \in Tasks : OnMessageJoin(t)
    \/ \E t \in Tasks : EnsureDone(t)
    \/ \E t \in Tasks : LoadDone(t)
    \/ \E t \in Tasks : ChatReply(t)
    \/ \E t \in Tasks : ChatFail(t)
    \/ CloseBegin
    \/ \E s \in Sessions : FlushBegin(s)
    \/ \E s \in Sessions : FlushRow(s)
    \/ \E s \in Sessions : FlushCommit(s)
    \/ \E s \in Sessions : FlushFail(s)
    \/ CloseSaveAll
    \/ SaveRaise
    \/ CloseSuper

SpecClose == Init /\ [][NextClose]_vars

(***************************************************************************)
(* SchedNotifier: the morning and the nightly schedule loops               *)
(***************************************************************************)
MaxGuilds == 2      \* entries of guilds_conf

\* What list_events returns: a list with events, an empty list, or None
\* after an HttpError.
EventResults == {"events", "empty", "none"}

\* An entry of guilds_conf as a run of a loop finds it: whether the calendar
\* id and the channel id are set, whether get_channel finds the channel, and
\* what list_events returns for the day.
GuildConfs ==
    [calendar_id_set : BOOLEAN, channel_id_set : BOOLEAN, channel_found : BOOLEAN,
     events : EventResults]

\* guilds_conf.items(), in the dictionary's order.
GuildsConfs == UNION {[1..n -> GuildConfs] : n \in 1..MaxGuilds}

\* The entry is passed over before its events are retrieved.
Skipped(conf) == ~conf.calendar_id_set \/ ~conf.channel_id_set \/ ~conf.channel_found

RECURSIVE notify_today(_, _)
\* loop_notify_today_schedule from the i-th entry on: the entries a message
\* is sent for.  An entry without events is passed over (continue).
notify_today(confs, i) ==
    IF i > Len(confs) THEN <<>>
    ELSE IF Skipped(confs[i]) THEN notify_today(confs, i + 1)
    ELSE IF confs[i].events # "events" THEN notify_today(confs, i + 1)
    ELSE <<i>> \o notify_today(confs, i + 1)

RECURSIVE notify_tomorrow(_, _)
\* loop_notify_tomorrow_schedule from the i-th entry on: the entries a
\* message is sent for.  At an entry without events the function returns.
notify_tomorrow(confs, i) ==
    IF i > Len(confs) THEN <<>>
    ELSE IF Skipped(confs[i]) THEN notify_tomorrow(confs, i + 1)
    ELSE IF confs[i].events # "events" THEN <<>>
    ELSE <<i>> \o notify_tomorrow(confs, i + 1)

\* A run of the morning loop; the API client is enabled (the loops are
\* started only when build() succeeded) and every send succeeds.
LoopNotifyToday ==
    /\ \E confs \in GuildsConfs :
        notified' = [loop |-> "today", guilds_conf |-> confs, sent |-> notify_today(confs, 1)]
    /\ UNCHANGED <<instances, handled, closing>>

\* A run of the nightly loop, likewise.
LoopNotifyTomorrow ==
    /\ \E confs \in GuildsConfs :
        notified' = [loop |-> "tomorrow", guilds_conf |-> confs,
                     sent |-> notify_tomorrow(confs, 1)]
    /\ UNCHANGED <<instances, handled, closing>>

NextNotifier ==
    \/ LoopNotifyToday
    \/ LoopNotifyTomorrow

SpecNotifier == Init /\ [][NextNotifier]_vars

(***************************************************************************)
(* The scenario of one session with the default ChatHistory parameters:    *)
(* chat() is called S1Exchanges times on "s1", one call after the other,   *)
(* and every completion succeeds.                                          *)
(***************************************************************************)
\* max_recent : int = 20, summarize_threshold : int = 100
S1MaxRecent == 20
S1Threshold == 100

\* summarize_if_necessary with the default parameters: as above, the branch
\* taken above the threshold raises at its first statement.
summarize_if_necessary_default(msgs) ==
    IF Len(msgs) - S1MaxRecent > S1Threshold
    THEN [messages |-> msgs, outcome |-> "raised"]
    ELSE [messages |-> msgs, outcome |-> "returned"]

\* The first call: chat() on the new session "s1" (create_instance).
ChatCreateS1(t) == ChatCreate(t) /\ sess'[t] = "s1"

\* A later call: chat() on "s1", which has a runnable; the call before it
\* has ended.
ChatExistingS1(t) ==
    /\ \A x \in Tasks : pc[x] = "idle"
    /\ FirstIdle(t)
    /\ "s1" \in runnables
    /\ calls < S1Exchanges
    /\ sess' = [sess EXCEPT ![t] = "s1"]
    /\ \E text \in Inputs : input' = [input EXCEPT ![t] = text]
    /\ serial' = Overlap("s1")
    /\ now' = [now EXCEPT ![t] = clock]
    /\ clock' = clock + 1
    /\ pc' = [pc EXCEPT ![t] = "invoke"]
    /\ calls' = calls + 1
    /\ returned' = NoReturn
    /\ UNCHANGED <<cogs, registry, stats, messages, db_initialized, db_lock, db, stats_file,
                   result, fpc, fidx, ftx, spc, saves, runs, clears, built, loads, loaded_rows, commits,
                   flushed, quiet>>

\* As if the statistic were updated after summarize_if_necessary returned.
ChatReplyCountsLast(t) ==
    /\ pc[t] = "invoke"
    /\ \E reply \in Replies, usage \in Usages :
        LET s == sess[t]
            after == summarize_if_necessary_default(
                         messages[s] \o TurnPair(input[t], reply, now[t]))
        IN  /\ messages' = [messages EXCEPT ![s] = after.messages]
            /\ stats' = IF after.outcome = "raised" THEN stats
                        ELSE [stats EXCEPT ![s] = Counted(stats[s], usage)]
            /\ result' = IF after.outcome = "raised" THEN "raised" ELSE "reply"
            /\ quiet' = [quiet EXCEPT ![s] = FALSE]
    /\ Return(t)
    /\ returned' = NoReturn
    /\ UNCHANGED <<cogs, registry, db_initialized, db_lock, db, stats_file,
                   fpc, fidx, ftx, spc, clock, counters, built, loads, loaded_rows, commits, flushed,
                   serial>>

\* ainvoke returns a response, as in ChatReply, on a history with the
\* default parameters.
ChatReplyS1(t) ==
    /\ pc[t] = "invoke"
    /\ \E reply \in Replies, usage \in Usages :
        LET s == sess[t]
            after == summarize_if_necessary_default(
                         messages[s] \o TurnPair(input[t], reply, now[t]))
        IN  /\ messages' = [messages EXCEPT ![s] = after.messages]
            /\ stats' = [stats EXCEPT ![s] = Counted(stats[s], usage)]
            /\ result' = IF after.outcome = "raised" THEN "raised" ELSE "reply"
            /\ quiet' = [quiet EXCEPT ![s] = FALSE]
    /\ Return(t)
    /\ returned' = NoReturn
    /\ UNCHANGED <<cogs, registry, db_initialized, db_lock, db, stats_file,
                   fpc, fidx, ftx, spc, clock, counters, built, loads, loaded_rows, commits, flushed,
                   serial>>

NextS1 ==
    \/ \E t \in Tasks : ChatCreateS1(t)
    \/ \E t \in Tasks : EnsureDone(t)
    \/ \E t \in Tasks : LoadDone(t)
    \/ \E t \in Tasks : ChatExistingS1(t)
    \/ \E t \in Tasks : ChatReplyS1(t)

SpecS1 == Init /\ [][NextS1]_vars

(***************************************************************************)
(* The chat cog: CharChat.on_message, _get_session_id and show_stat        *)
(***************************************************************************)
UserIds == {1, 2}              \* message.author.id, ctx.author.id
GuildIds == {1, 2}             \* message.guild.id, ctx.guild.id
\* message.guild of a message in a DM channel (None).
NoGuild == 0
\* discord.ChannelType: "voice" stands for the types that are not allowed.
ChannelTypes == {"text", "public_thread", "private", "voice"}
\* discord.MessageType: "pins_add" stands for the types that are not answered.
MessageTypes == {"default", "reply", "pins_add"}

\* The inbound messages: who wrote it, where, of what type, and whether it
\* mentions the bot.
Messages ==
    {m \in [author_bot : BOOLEAN, author_id : UserIds, channel_type : ChannelTypes,
            guild_id : GuildIds \cup {NoGuild}, nsfw : BOOLEAN, type : MessageTypes,
            mentioned : BOOLEAN] :
        IF m.channel_type = "private" THEN m.guild_id = NoGuild /\ ~m.nsfw
        ELSE m.guild_id # NoGuild}

\* The contexts of a /chat stat command.
Contexts ==
    {c \in [author_id : UserIds, channel_type : ChannelTypes,
            guild_id : GuildIds \cup {NoGuild}] :
        IF c.channel_type = "private" THEN c.guild_id = NoGuild ELSE c.guild_id # NoGuild}

\* As if the id carried no mark of its kind (f"session_{id}").
_get_session_id_unmarked(m) ==
    IF m.channel_type = "private"
    THEN "session_" \o ToString(m.author_id)
    ELSE "session_" \o ToString(m.guild_id)

\* _get_session_id(message); show_stat computes the same from ctx.
_get_session_id(m) ==
    IF m.channel_type = "private"
    THEN "session_u" \o ToString(m.author_id)
    ELSE "session_g" \o ToString(m.guild_id)

\* ChatInstances.chat was not called.
NotRouted == ""

\* What on_message does with message m, `outcome` being how the chat() call
\* ends if it is made: the messages sent to the channel and the session id
\* passed to chat().
on_message(m, outcome) ==
    IF m.author_bot
    THEN [sent |-> <<>>, session_id |-> NotRouted]
    ELSE IF m.channel_type \notin {"text", "news", "public_thread", "private"}
    THEN [sent |-> <<>>, session_id |-> NotRouted]
    ELSE IF m.channel_type \in {"text", "news", "public_thread"} /\ m.nsfw
    THEN [sent |-> <<"nsfw_notice">>, session_id |-> NotRouted]
    ELSE IF m.type # "default" /\ m.type # "reply"
    THEN [sent |-> <<>>, session_id |-> NotRouted]
    ELSE IF m.channel_type = "private" \/ m.mentioned
    THEN [sent |-> IF outcome = "raised" THEN <<>> ELSE <<"response">>,
          session_id |-> _get_session_id(m)]
    ELSE [sent |-> <<>>, session_id |-> NotRouted]

\* The new entry in front, and the one before it if that one had a session.
Remember(entry) ==
    IF handled # <<>> /\ handled[1].session_id # NotRouted
    THEN <<entry, handled[1]>>
    ELSE <<entry>>

\* A message arrives and on_message handles it; a chat() call it makes
\* returns a text (the reply or the fallback) or raises.
OnMessage ==
    /\ \E m \in Messages :
        \E outcome \in IF on_message(m, "returned").session_id = NotRouted
                       THEN {"returned"} ELSE {"returned", "raised"} :
        LET did == on_message(m, outcome)
        IN  handled' = Remember([event |-> "on_message", message |-> m,
                                 sent |-> did.sent, session_id |-> did.session_id])
    /\ UNCHANGED <<instances, closing, notified>>

\* /chat stat is used in context c: show_stat asks get_statistic for the
\* session of the context and responds with the numbers.
ShowStat ==
    /\ \E c \in Contexts :
        handled' = Remember([event |-> "show_stat", message |-> c,
                             sent |-> <<"stat">>, session_id |-> _get_session_id(c)])
    /\ UNCHANGED <<instances, closing, notified>>

NextCog ==
    \/ OnMessage
    \/ ShowStat

SpecCog == Init /\ [][NextCog]_vars

(***************************************************************************)
(* Statistics queries: get_statistic and get_all_token_usage               *)
(***************************************************************************)
\* As if the lookup were self._stats.setdefault(session_id, ChatStatistic()).
GetStatisticCreates(s) ==
    /\ returned' = [call |-> "get_statistic", session |-> s, value |-> get_statistic(s)]
    /\ stats' = WithStatistic(s)
    /\ UNCHANGED <<cogs, registry, messages, db_initialized, db_lock, db, stats_file, pc,
                   sess, input, now, result, fpc, fidx, ftx, spc, clock, counters, built,
                   loads, loaded_rows, commits, flushed, quiet, serial>>

\* The /chat stat command: show_stat calls get_statistic with the id of the
\* channel's session, which may be one the registry has never seen, and
\* formats what it gets.
GetStatistic(s) ==
    /\ returned' = [call |-> "get_statistic", session |-> s, value |-> get_statistic(s)]
    /\ UNCHANGED <<cogs, registry, stats, messages, db_initialized, db_lock, db, stats_file, pc,
                   sess, input, now, result, fpc, fidx, ftx, spc, clock, counters, built,
                   loads, loaded_rows, commits, flushed, quiet, serial>>

\* Summarizer.token_usage: TokenUsage() at construction.  Its only writer,
\* update_token_usage in Summarizer.summarize, is called from
\* _summarize_messages alone, which summarize_if_necessary never reaches.
summarizer_token_usage == TokenUsage(0, 0, 0)

\* for stat in self._stats.values(): all_usages.<counter> += stat.tokusage.<counter>
RECURSIVE all_usages(_)
all_usages(ids) ==
    IF ids = {} THEN TokenUsage(0, 0, 0)
    ELSE LET x == CHOOSE x \in ids : TRUE
         IN  update_token_usage(all_usages(ids \ {x}), stats[x].tokusage)

\* As if the loop assigned each statistic's counters (= for +=).
get_all_token_usage_assigning ==
    update_token_usage(IF DOMAIN stats = {} THEN TokenUsage(0, 0, 0)
                       ELSE stats[CHOOSE x \in DOMAIN stats : TRUE].tokusage,
                       summarizer_token_usage)

\* get_all_token_usage()
get_all_token_usage ==
    update_token_usage(all_usages(DOMAIN stats), summarizer_token_usage)

\* A caller asks for the aggregate (nothing in the bot does).
GetAllTokenUsage ==
    /\ returned' = [call |-> "get_all_token_usage", value |-> get_all_token_usage]
    /\ UNCHANGED <<cogs, registry, stats, messages, db_initialized, db_lock, db, stats_file, pc,
                   sess, input, now, result, fpc, fidx, ftx, spc, clock, counters, built,
                   loads, loaded_rows, commits, flushed, quiet, serial>>

\* The program with the statistics queries in use.
NextWithQueries ==
    \/ Next
    \/ \E s \in Sessions : GetStatistic(s)
    \/ GetAllTokenUsage

SpecWithQueries == Init /\ [][NextWithQueries]_vars


(***************************************************************************)
(* Properties                                                              *)
(***************************************************************************)
\* What a message is to a reader: its role, its content and the timestamp
\* read from it.
Seen(m) == [type |-> m.type, content |-> m.content, timestamp |-> Timestamp(m)]

Occurrences(q, x) == Cardinality({i \in DOMAIN q : Seen(q[i]) = x})

\* The same messages, none missing and none duplicated.
SameMessages(p, q) ==
    /\ Len(p) = Len(q)
    /\ \A i \in DOMAIN p : Occurrences(p, Seen(p[i])) = Occurrences(q, Seen(p[i]))

Ascending(q) == \A i, j \in DOMAIN q : i < j => Timestamp(q[i]) <= Timestamp(q[j])

StrictlyAscending(q) == \A i, j \in DOMAIN q : i < j => Timestamp(q[i]) < Timestamp(q[j])

\* The step in which handler t's load_all_messages gets its rows.
Loaded(t) == pc[t] = "select" /\ pc'[t] = "invoke"

\* The step in which the flush of session s commits and summarize_if_necessary is called.
Committed(s) == fpc[s] = "rows" /\ fpc'[s] \in {"done", "raised"}

\* The step in which handler t's completion succeeds.
Replied(t) == pc[t] = "invoke" /\ pc'[t] = "idle" /\ result' \in {"reply", "raised"}

\* C1: for a session whose store started empty and whose operations did not
\* overlap, once one flush has completed, what load_all_messages puts into
\* the (just cleared) list is exactly the messages that were in the list at
\* that flush: same role, content and timestamp, none missing, none
\* duplicated, in ascending timestamp order.
RoundTrip ==
    [][\A t \in Tasks :
        (Loaded(t) /\ serial[sess[t]] /\ commits[sess[t]] = 1)
            => /\ SameMessages(messages'[sess[t]], flushed[sess[t]])
               /\ Ascending(messages'[sess[t]])]_vars

\* C1 witness: a load after a restart has brought back a flushed list of
\* two turns, which the store holds in another order than the load returns.
RoundTripWitness ==
    \E t \in Tasks :
        /\ pc[t] = "invoke" /\ runs = 1 /\ serial[sess[t]] /\ commits[sess[t]] = 1
        /\ Len(flushed[sess[t]]) = 4
        /\ messages[sess[t]] # flushed[sess[t]]
        /\ SameMessages(messages[sess[t]], flushed[sess[t]])

\* C2: a flush that follows a completed flush of the same history with no
\* append in between (and no operation overlapping another) leaves the
\* store's rows as they were: it persists no duplicate row.
FlushIdempotent ==
    [][\A s \in Sessions : (Committed(s) /\ quiet[s] /\ serial[s]) => db'[s] = db[s]]_vars

Range(q) == {q[i] : i \in DOMAIN q}

\* The list `post` is a summary followed by the last max_recent messages of `pre`.
CompactedFrom(pre, post) ==
    /\ Len(post) = max_recent + 1
    /\ post[1].type = "ai" /\ post[1] \notin Range(pre)
    /\ SubSeq(post, 2, Len(post)) = SubSeq(pre, Len(pre) - max_recent + 1, Len(pre))

\* C3: when summarize_if_necessary is called on a list of N messages with
\* N - max_recent > summarize_threshold, it leaves max_recent + 1 messages:
\* the summary, then the last max_recent messages of before, in order.
CompactionPostState ==
    [][/\ \A s \in Sessions :
            (Committed(s) /\ NeedsSummary(messages[s]))
                => CompactedFrom(messages[s], messages'[s])
       /\ \A t \in Tasks : \A reply \in Replies :
            (Replied(t) /\ NeedsSummary(messages[sess[t]] \o TurnPair(input[t], reply, now[t])))
                => CompactedFrom(messages[sess[t]] \o TurnPair(input[t], reply, now[t]),
                                 messages'[sess[t]])]_vars

\* C4: whenever no operation is in progress on a session, the timestamps of
\* its in-memory list are strictly increasing.
StrictOrdering ==
    \A s \in Sessions : (~ChatBusy(s) /\ ~FlushBusy(s)) => StrictlyAscending(messages[s])


\* C6: for every session, at most one history cache is constructed (each
\* construction is followed by one load) and at most one completion
\* pipeline, whatever the interleaving of first-contact calls.
OneConstruction == \A s \in Sessions : built[s] <= 1 /\ loads[s] <= 1

\* The step in which load_all_messages clears the list.
Cleared(t) == pc[t] = "ensure" /\ pc'[t] = "select"

\* C7: a session's store is read at most once; a turn pair is appended only
\* to a session that is Ready; and the clear of the load removes nothing
\* (nothing was appended before it).
SingleFlightLoad ==
    [][/\ \A s \in Sessions : loads'[s] <= 1
       /\ \A t \in Tasks : Replied(t) => SessionState(sess[t]) = "Ready"
       /\ \A t \in Tasks : Cleared(t) => messages[sess[t]] = <<>>]_vars

\* The step in which handler t's chat() starts on a session that has a runnable.
Invoked(t) == pc[t] = "idle" /\ pc'[t] = "invoke" /\ sess'[t] \in runnables

\* The step in which handler t's completion fails.
Failed(t) == pc[t] = "invoke" /\ pc'[t] = "idle" /\ result' \notin {"reply", "raised"}

\* C8: a chat() call whose completion fails returns the fallback text, and
\* neither its start on an existing session nor its failing return changes
\* any message list or any statistic.
FailureIsolation ==
    [][\A t \in Tasks :
        /\ Failed(t) => (result' = "fallback" /\ messages' = messages /\ stats' = stats)
        /\ Invoked(t) => (messages' = messages /\ stats' = stats)]_vars

\* C8 witness: a call has returned the fallback on a session that already
\* holds a turn and a count.
FailureIsolationWitness ==
    /\ result = "fallback"
    /\ \E s \in DOMAIN stats : stats[s].chat_count = 1 /\ Len(messages[s]) = 2

SummarizationCaught == result # "raised"

\* save_all_session() has returned or raised.
SaveEnded == spc \in {"done", "raised"}

\* Every message of the list q has a row in the session's store.
Durable(s, q) == \A i \in DOMAIN q : RowOf(s, q[i]) \in Range(db[s])

\* C11: when save_all_session() has ended and the flush of a session A failed
\* in it with a storage error, the flush of every other session B of the same
\* call (that did not fail itself) has committed: B's messages are in the
\* store.  Stated for sessions no two operations of which have overlapped.
SaveAllIsolation ==
    \A a, b \in Sessions :
        (/\ SaveEnded /\ fpc[a] = "failed" /\ b # a /\ fpc[b] \notin {"idle", "failed"}
         /\ serial[a] /\ serial[b] /\ messages[b] # <<>>)
            => (fpc[b] \in {"done", "raised"} /\ Durable(b, messages[b]))

\* Nothing of the session is in the store or in stats.json, and no call on it
\* has been answered.
BrandNew(s) == db[s] = <<>> /\ s \notin DOMAIN stats_file /\ stats[s] = ChatStatistic

\* C12: when a chat() call on a session of which nothing is stored returns
\* the first assistant reply, the session's list is exactly the user message
\* followed by that reply, and the total_tokens of its statistic is the total
\* the completion reported.
FirstContact ==
    [][\A t \in Tasks :
        (Replied(t) /\ BrandNew(sess[t]))
            => /\ result' = "reply"
               /\ \E reply \in Replies :
                    messages'[sess[t]] = TurnPair(input[t], reply, now[t])
               /\ \E usage \in Usages :
                    stats'[sess[t]].tokusage.total_tokens = usage.total_tokens]_vars

\* C12 witness: the first call on a session has returned its reply.
FirstContactWitness ==
    /\ result = "reply" /\ calls = 1 /\ runs = 0
    /\ \E s \in DOMAIN stats :
        /\ stats[s].chat_count = 1 /\ stats[s].tokusage.total_tokens > 0
        /\ Len(messages[s]) = 2 /\ messages[s][1].type = "human" /\ messages[s][2].type = "ai"
        /\ db[s] = <<>> /\ stats_file = << >>

RowOccurrences(q, r) == Cardinality({i \in DOMAIN q : q[i] = r})

\* The rows are exactly the rows of the messages: one row per message, with
\* its role, content and timestamp, and no other row.
RowsAre(s, rows, msgs) ==
    /\ Len(rows) = Len(msgs)
    /\ \A i \in DOMAIN rows :
            RowOccurrences(rows, rows[i]) = RowOccurrences(RowsOf(s, msgs), rows[i])

\* C13: when a flush of a session completes, no two operations on the
\* session having overlapped, the session's rows in the store are exactly
\* the rows of its in-memory messages.
ConvergenceAfterFlush ==
    [][\A s \in Sessions :
        (Committed(s) /\ serial[s]) => RowsAre(s, db'[s], messages'[s])]_vars

\* The step in which the flush of session s ends with an exception.
FlushFailed(s) == fpc[s] = "rows" /\ fpc'[s] = "failed"

\* The step in which the process ends while the flush of session s has its
\* transaction open.
Crashed(s) == fpc[s] = "rows" /\ runs' # runs

\* C15: a flush that fails or is interrupted, whatever the number of INSERTs
\* it has issued, leaves the session's store rows as they are, which is as
\* they were when it began: the rows change only in the step in which a
\* flush commits, and then by the whole batch, one row for every message of
\* the list.
TransactionalFlush ==
    [][\A s \in Sessions :
        /\ (FlushFailed(s) \/ Crashed(s)) => db'[s] = db[s]
        /\ db'[s] # db[s]
            => (Committed(s) /\ db'[s] = db[s] \o RowsOf(s, messages[s]))]_vars

\* C15 witness: a flush has failed after the first of two INSERTs, and the
\* store holds no row of it.
TransactionalFlushWitness ==
    \E s \in Sessions :
        /\ fpc[s] = "failed" /\ fidx[s] = 1 /\ Len(messages[s]) = 2 /\ db[s] = <<>>

\* The rows are those of a compacted list of `pre`: one row per retained
\* recent message and one more row, the summary's, which is an AI row that is
\* not the row of a message of `pre`.
StoreCompacted(s, rows, pre) ==
    LET recents == SubSeq(pre, Len(pre) - max_recent + 1, Len(pre))
    IN  /\ Len(rows) = max_recent + 1
        /\ \A i \in DOMAIN recents : RowOccurrences(rows, RowOf(s, recents[i])) = 1
        /\ \E i \in DOMAIN rows :
                rows[i].role = "AI" /\ rows[i] \notin Range(RowsOf(s, pre))

\* C16: a failed summarize_if_necessary leaves the store as it is, and once
\* it has failed on a list, has been called again on that list (after the
\* flush of one save_all_session) and a further flush has completed, the
\* store holds exactly the summary and the retained recent messages.
ReentrantCompaction ==
    [][\A s \in Sessions :
        /\ (Committed(s) /\ fpc'[s] = "raised") => db'[s] = db[s] \o ftx[s]
        /\ (Committed(s) /\ quiet[s] /\ serial[s] /\ NeedsSummary(messages[s]))
                => StoreCompacted(s, db'[s], messages[s])]_vars

\* summarize_if_necessary has just been called on the flushed list of s, which
\* is above the threshold.
CompactionDue(s) == fpc[s] = "raised" /\ serial[s] /\ NeedsSummary(messages[s])

\* The messages of the list whose rows the statement deletes.
Deleted(s, ts) ==
    {j \in DOMAIN messages[s] :
        RowOccurrences(DeleteWhere(db[s], s, ts), RowOf(s, messages[s][j]))
            < RowOccurrences(db[s], RowOf(s, messages[s][j]))}

SummaryFirst ==
    [][\A t \in Tasks :
        (/\ Loaded(t) /\ serial[sess[t]] /\ commits[sess[t]] = 1
         /\ NeedsSummary(flushed[sess[t]]))
            => /\ CompactedFrom(MapMessages(RowsOf(sess[t], flushed[sess[t]])),
                                messages'[sess[t]])
               /\ \A i \in DOMAIN messages'[sess[t]] :
                    Timestamp(messages'[sess[t]][1]) <= Timestamp(messages'[sess[t]][i])]_vars

\* C19: each close() calls the hook once, which calls save_all_session()
\* once; and the step in which close() goes on past the hook is one in which
\* save_all_session() completes: every history the call started a flush for
\* has committed it, so that the messages it flushed are in the store, and
\* stats.json holds the statistics.
ShutdownHook ==
    [][/\ saves' # saves => (saves' = saves + 1 /\ ~InShutdownHook /\ InShutdownHook')
       /\ (InShutdownHook' /\ ~InShutdownHook) => saves' = saves + 1
       /\ (PastShutdownHook' /\ ~PastShutdownHook)
            => /\ InShutdownHook
               /\ stats_file' = Dumped(stats')
               /\ \A s \in Sessions :
                    fpc[s] # "idle"
                        => (fpc[s] = "done" /\ commits[s] >= 1 /\ Durable(s, flushed[s]))]_vars

\* C19 witness: close() is past the hook after a save that flushed two
\* sessions and wrote their statistics.
ShutdownHookWitness ==
    /\ PastShutdownHook
    /\ \A s \in Sessions :
        /\ fpc[s] = "done" /\ messages[s] # <<>> /\ Durable(s, messages[s])
        /\ s \in DOMAIN stats_file /\ stats_file[s].chat_count = 1

\* The step in which the flush of session s, started by the shutdown's
\* save_all_session(), takes the lock and opens its transaction.
FlushBegun(s) == fpc[s] = "start" /\ fpc'[s] = "rows"

\* C20: the flush that save_all_session() runs for a session at shutdown
\* does not begin while a chat() call on that session is in flight.
DrainBeforeFlush ==
    [][\A s \in Sessions : FlushBegun(s) => ~ChatBusy(s)]_vars

\* The statistic of a session, the zero statistic when it has none.
StatOf(st, s) == IF s \in DOMAIN st THEN st[s] ELSE ChatStatistic

\* The step is one of an operation on session a: of a chat() call (its
\* create_instance and load included), of a flush with the compaction that
\* follows it, or of a clear.
StepOf(a) ==
    /\ runs' = runs
    /\ \/ \E t \in Tasks :
            /\ pc'[t] # pc[t]
            /\ IF pc[t] = "idle" THEN sess'[t] = a ELSE sess[t] = a
       \/ fpc[a] \in {"start", "rows"} /\ fpc'[a] # fpc[a]
       \/ ClearBusy(a) # ClearBusy(a)'
       \/ returned'.call = "clear" /\ returned'.session = a

\* Nothing of session b changes in the step.
Untouched(b) ==
    /\ messages'[b] = messages[b]
    /\ db'[b] = db[b]
    /\ StatOf(stats', b) = StatOf(stats, b)

\* The holder of a history's lock is an operation on its own session, and
\* an operation that needs the lock (a flush, a clear) can go on whenever
\* the lock is free, whatever the operations on other sessions hold.
OwnLock(s) ==
    /\ \/ db_lock[s] \in {"free", "flush", "clear"}
       \/ db_lock[s] \in Tasks /\ sess[db_lock[s]] = s /\ pc[db_lock[s]] = "ensure"
    /\ (fpc[s] = "start" /\ db_lock[s] = "free") => ENABLED FlushBegin(s)
    /\ (s \in histories /\ db_lock[s] = "free" /\ clears < MaxClears) => ENABLED ClearBegin(s)

\* C21: a step of an operation on a session changes the messages, the store
\* rows and the statistic of no other session; and in every state a step
\* leads to, each lock is held by an operation on its own session only, and
\* an operation waits for no lock but a held lock of its own session.
SessionIndependence ==
    [][/\ \A a, b \in Sessions : (StepOf(a) /\ b # a) => Untouched(b)
       /\ \A s \in Sessions : OwnLock(s)']_vars

\* C21 witness: a flush of one session holds its lock in the middle of its
\* batch while a clear holds the lock of the other session, whose messages
\* and rows are in place.
SessionIndependenceWitness ==
    \E a, b \in Sessions :
        /\ a # b
        /\ db_lock[a] = "flush" /\ fidx[a] = 1
        /\ db_lock[b] = "clear" /\ messages[b] # <<>> /\ db[b] # <<>>

(***************************************************************************)
(* C22  Ledger accounting                                                  *)
(***************************************************************************)
Plus(usage, reported) ==
    TokenUsage(usage.input_tokens + reported.input_tokens,
               usage.output_tokens + reported.output_tokens,
               usage.total_tokens + reported.total_tokens)

\* C22: the step in which a chat() call gets its response adds the usage the
\* response reports to each of the three counters of that session, on top
\* of what the session had, and changes the token usage of no other
\* session; inside one process run no other step changes any session's
\* token usage, so a response is counted once.
LedgerAccounting ==
    [][/\ \A t \in Tasks : Replied(t) =>
            /\ \E reported \in Usages :
                   stats'[sess[t]].tokusage = Plus(stats[sess[t]].tokusage, reported)
            /\ \A b \in Sessions \ {sess[t]} :
                   StatOf(stats', b).tokusage = StatOf(stats, b).tokusage
       /\ ((\A t \in Tasks : ~Replied(t)) /\ runs' = runs) =>
            \A b \in Sessions : StatOf(stats', b).tokusage = StatOf(stats, b).tokusage
      ]_vars

\* A chat() call has returned its reply on a session that had usage before.
LedgerAccountingWitness ==
    /\ result = "reply"
    /\ \E a \in DOMAIN stats :
        /\ stats[a].tokusage = TokenUsage(4, 2, 6)
        /\ Len(messages[a]) = 2
        /\ ~ChatBusy(a)

(***************************************************************************)
(* C23  chat_count                                                         *)
(***************************************************************************)
\* C23: the step in which a chat() call gets its response raises the
\* session's chat_count by exactly one, whatever the number of messages the
\* turn adds, and changes no other session's count; the step in which the
\* completion fails changes no count; and within one process run no other
\* step (create_instance, load, flush, compaction) changes any count.
ChatCountPerTurn ==
    [][/\ \A t \in Tasks : Replied(t) =>
            /\ stats'[sess[t]].chat_count = stats[sess[t]].chat_count + 1
            /\ \A b \in Sessions \ {sess[t]} :
                   StatOf(stats', b).chat_count = StatOf(stats, b).chat_count
       /\ \A t \in Tasks : Failed(t) =>
            \A b \in Sessions : StatOf(stats', b).chat_count = StatOf(stats, b).chat_count
       /\ ((\A t \in Tasks : ~Replied(t)) /\ runs' = runs) =>
            \A b \in Sessions : StatOf(stats', b).chat_count = StatOf(stats, b).chat_count
      ]_vars

\* One answered turn, two messages, count one, in a run in which the same
\* session also had a failed completion and a flush with its compaction check.
ChatCountPerTurnWitness ==
    \E s \in DOMAIN stats :
        /\ stats[s].chat_count = 1
        /\ Len(messages[s]) = 2
        /\ fpc[s] = "done"
        /\ calls = 2 /\ runs = 0
        /\ \A x \in Sessions : x # s => Fresh(x)
        /\ \A t \in Tasks : pc[t] = "idle"

(***************************************************************************)
(* C24  Token usage is monotone                                            *)
(***************************************************************************)
AtLeast(usage, other) ==
    /\ usage.input_tokens >= other.input_tokens
    /\ usage.output_tokens >= other.output_tokens
    /\ usage.total_tokens >= other.total_tokens

\* C24: within one process run every step leaves each of a session's three
\* token counters a natural number that is at least what it was before the
\* step (a session without a statistic counts as zero).
TokenUsageMonotone ==
    [][runs' = runs =>
        \A s \in Sessions :
            /\ StatOf(stats', s).tokusage \in [input_tokens : Nat, output_tokens : Nat,
                                                total_tokens : Nat]
            /\ AtLeast(StatOf(stats', s).tokusage, StatOf(stats, s).tokusage)]_vars

\* A session whose usage was read from the ledger at start has been used
\* again in the new run.
TokenUsageMonotoneWitness ==
    /\ runs = 1
    /\ \E s \in DOMAIN stats \cap DOMAIN stats_file :
        /\ stats_file[s].tokusage = TokenUsage(2, 1, 3)
        /\ stats[s].tokusage = TokenUsage(4, 2, 6)

(***************************************************************************)
(* C25  get_statistic is a pure read                                       *)
(***************************************************************************)
\* C25: a get_statistic call returns, for a session id the ledger does not
\* know, a statistic with chat_count 0 and the three token counters 0, and
\* for a known id the stored statistic; in either case the step leaves the
\* registry, the ledger in memory and on disk, and every history and store
\* as they were.
PureRead ==
    [][returned'.call = "get_statistic" =>
        /\ returned'.session \notin DOMAIN stats =>
               returned'.value = [chat_count |-> 0, tokusage |-> TokenUsage(0, 0, 0)]
        /\ returned'.session \in DOMAIN stats =>
               returned'.value = stats[returned'.session]
        /\ DOMAIN stats' = DOMAIN stats
        /\ UNCHANGED <<registry, stats, stats_file, messages, db>>]_vars

\* The statistic of a session the ledger does not know has been asked for
\* while another session has an answered turn.
PureReadWitness ==
    /\ returned.call = "get_statistic"
    /\ returned.session \notin DOMAIN stats
    /\ returned.session \notin histories
    /\ \E s \in DOMAIN stats : stats[s].chat_count = 1

(***************************************************************************)
(* C30  Aggregate usage                                                    *)
(***************************************************************************)
Counters == {"input_tokens", "output_tokens", "total_tokens"}

\* The sum of counter k over the sessions in ids that have a statistic.
RECURSIVE SumOver(_, _)
SumOver(ids, k) ==
    IF ids = {} THEN 0
    ELSE LET x == CHOOSE x \in ids : TRUE
         IN  StatOf(stats, x).tokusage[k] + SumOver(ids \ {x}, k)

\* C30: a get_all_token_usage call returns, counter by counter, the sum
\* over the sessions of the ledger plus the summarizer's counter, computed
\* from the statistics as they are at the call; the step changes no stored
\* statistic, in memory or in stats.json.
AggregateUsage ==
    [][returned'.call = "get_all_token_usage" =>
        /\ \A k \in Counters :
               returned'.value[k] = SumOver(Sessions, k) + summarizer_token_usage[k]
        /\ UNCHANGED <<stats, stats_file>>]_vars

\* The aggregate has been asked for while two sessions have usage.
AggregateUsageWitness ==
    /\ returned.call = "get_all_token_usage"
    /\ returned.value = TokenUsage(4, 2, 6)
    /\ \A s \in Sessions : s \in DOMAIN stats /\ stats[s].tokusage = TokenUsage(2, 1, 3)

(***************************************************************************)
(* C26  save_all_session completeness                                      *)
(***************************************************************************)
\* The step in which save_all_session() returns.
SaveReturned == spc = "running" /\ spc' = "done"

\* C26: when save_all_session() returns, every flush task of the call has
\* finished before stats.json was written, stats.json read back gives for
\* every session id the statistic held in memory, and for every history
\* (no two operations on which have overlapped, and to which nothing was
\* appended since its flush) the store's rows are exactly the rows of its
\* in-memory messages.
SaveAllCompleteness ==
    [][SaveReturned =>
        /\ \A s \in Sessions : fpc[s] \in {"idle", "done"}
        /\ Dumped(stats_file') = stats'
        /\ \A s \in histories :
               (serial[s] /\ quiet[s]) => RowsAre(s, db'[s], messages'[s])]_vars

(***************************************************************************)
(* C29  clear                                                              *)
(***************************************************************************)
\* The step in which the call `call` on the history of session s returns.
Returns(call, s) == returned'.call = call /\ returned'.session = s

\* Messages and rows of every session but s are as they were.
OthersKept(s) ==
    \A b \in Sessions \ {s} : messages'[b] = messages[b] /\ db'[b] = db[b]

\* C29 as stated: when clear() or aclear() on a session returns, the
\* session's list is empty, a load of the session would get no row, and
\* the messages and rows of the other sessions are as they were.
ClearEmptiesBoth ==
    [][\A s \in Sessions : (Returns("clear", s) \/ Returns("aclear", s)) =>
        /\ messages'[s] = <<>>
        /\ Select(db'[s], s) = {<<>>}
        /\ OthersKept(s)]_vars

\* C29, amended: when aclear() on a session returns, the session's list is
\* empty and a load of the session would get no row; when clear() returns,
\* the session's list is empty and the store is as it was, so that a load
\* would get the rows again; in both cases the messages and rows of the
\* other sessions are as they were.
ClearByVariant ==
    [][\A s \in Sessions :
        /\ Returns("aclear", s) =>
               (messages'[s] = <<>> /\ Select(db'[s], s) = {<<>>} /\ OthersKept(s))
        /\ Returns("clear", s) =>
               (messages'[s] = <<>> /\ db' = db /\ OthersKept(s))]_vars

\* aclear() has returned on a session that had an answered turn and a
\* committed flush, beside a session whose messages and rows are in place.
ClearByVariantWitness ==
    /\ returned.call = "aclear"
    /\ \E b \in Sessions \ {returned.session} :
        /\ messages[b] # <<>> /\ db[b] # <<>>
    /\ stats[returned.session].chat_count = 1
    /\ commits[returned.session] = 1
    /\ db[returned.session] = <<>> /\ messages[returned.session] = <<>>

(***************************************************************************)
(* C27, C28  The scenario with max_recent 20 and summarize_threshold 100   *)
(***************************************************************************)
\* The n-th chat() call of the scenario has ended.
S1After(n) == calls = n /\ \A t \in Tasks : pc[t] = "idle"

\* C27: right after the 121st pair has been appended and the
\* summarize_if_necessary call that follows it has ended, the list of "s1"
\* has max_recent + 1 = 21 messages.
S1CompactedAtPair121 ==
    S1After(121) => Len(messages["s1"]) = S1MaxRecent + 1

\* C28 as stated: after the 130 exchanges, get_statistic("s1").chat_count
\* is 65.
S1ChatCount65 ==
    S1After(S1Exchanges) => get_statistic("s1").chat_count = 65

\* C28, amended: after the exchanges of the scenario (130, with 260
\* messages appended), get_statistic("s1").chat_count is the number of
\* exchanges: one per chat() call whose completion succeeded.
S1ChatCountIsExchanges ==
    S1After(S1Exchanges) =>
        /\ get_statistic("s1").chat_count = S1Exchanges
        /\ Len(messages["s1"]) = 2 * S1Exchanges

\* The 130 exchanges are done: 260 messages, count 130.
S1ChatCountWitness ==
    /\ S1After(130)
    /\ Len(messages["s1"]) = 260
    /\ get_statistic("s1").chat_count = 130
    /\ result = "raised"

(***************************************************************************)
(* C31  Bounded working set                                                *)
(***************************************************************************)
\* C31: for a session whose operations have not overlapped, whenever no
\* chat() call on it is in progress (so after every call that has ended),
\* its in-memory list has at most max_recent + summarize_threshold messages.
BoundedWorkingSet ==
    \A s \in Sessions :
        (serial[s] /\ ~ChatBusy(s)) => Len(messages[s]) <= max_recent + summarize_threshold

(***************************************************************************)
(* C32  Compaction below the threshold                                     *)
(***************************************************************************)
\* The list q is at or below the threshold of summarize_if_necessary.
Below(q) == Len(q) - max_recent <= summarize_threshold

\* C32: a summarize_if_necessary call on a list with
\* len - max_recent <= summarize_threshold, the boundary included, returns
\* and leaves list and store as they are.  In chat(): the list is the list
\* of before with the turn pair appended, the store is unchanged and the
\* call returns its reply.  After a flush: the list is unchanged, the store
\* has the rows of the flush's commit and nothing else changed, and the
\* task ends without exception.
NoOpBelowThreshold ==
    [][/\ \A t \in Tasks : (Replied(t) /\ Below(messages'[sess[t]])) =>
            /\ result' = "reply"
            /\ Len(messages'[sess[t]]) = Len(messages[sess[t]]) + 2
            /\ SubSeq(messages'[sess[t]], 1, Len(messages[sess[t]])) = messages[sess[t]]
            /\ db' = db
       /\ \A s \in Sessions : (Committed(s) /\ Below(messages[s])) =>
            /\ fpc'[s] = "done"
            /\ messages'[s] = messages[s]
            /\ db'[s] = db[s] \o ftx[s]]_vars

\* A chat() call has returned its reply with the list exactly at the
\* boundary, and the flush that followed ended without exception.
NoOpBelowThresholdWitness ==
    \E s \in Sessions :
        /\ Len(messages[s]) - max_recent = summarize_threshold
        /\ result = "reply"
        /\ fpc[s] = "done" /\ Len(db[s]) = Len(messages[s])

(***************************************************************************)
(* C33  The listener answers only when addressed                           *)
(***************************************************************************)
\* The message is a DM or mentions the bot.
Addressed(m) == m.channel_type = "private" \/ m.mentioned

\* C33: whenever on_message has sent something for a message, the author is
\* not a bot and the message is a DM or mentions the bot; a message that is
\* neither reaches chat() never, and so does a message in an NSFW channel.
AnswersOnlyWhenAddressed ==
    \A i \in DOMAIN handled :
        handled[i].event = "on_message" =>
            LET m == handled[i].message
            IN  /\ handled[i].sent # <<>> => (~m.author_bot /\ Addressed(m))
                /\ ~Addressed(m) => (handled[i].sent = <<>> /\ handled[i].session_id = NotRouted)
                /\ m.nsfw => handled[i].session_id = NotRouted

(***************************************************************************)
(* C39  Session identity                                                   *)
(***************************************************************************)
\* Both are DMs of the same author, or both come from the same guild.
SameConversation(m, n) ==
    \/ m.channel_type = "private" /\ n.channel_type = "private" /\ m.author_id = n.author_id
    \/ m.channel_type # "private" /\ n.channel_type # "private" /\ m.guild_id = n.guild_id

\* C39: of two events that were given a session (messages passed to chat(),
\* /chat stat commands), the session ids are equal exactly when both are
\* DMs of the same author or both come from the same guild; so the id of a
\* DM is never the id of a guild, and /chat stat reads the session that
\* on_message uses in the same context.
SessionIdentity ==
    (Len(handled) = 2 /\ handled[1].session_id # NotRouted) =>
        LET m == handled[1].message
            n == handled[2].message
        IN  /\ (handled[1].session_id = handled[2].session_id) <=> SameConversation(m, n)
            /\ (m.channel_type = "private" /\ n.channel_type # "private") =>
                   handled[1].session_id # handled[2].session_id

\* A mention in a guild's text channel was passed to chat(), and /chat stat
\* used in a thread of the same guild by another member read the same
\* session, whose number is also the id of the member who wrote the message.
SessionIdentityWitness ==
    /\ Len(handled) = 2
    /\ handled[1].event = "show_stat" /\ handled[2].event = "on_message"
    /\ handled[2].message.channel_type = "text"
    /\ handled[1].message.channel_type = "public_thread"
    /\ handled[1].message.author_id # handled[2].message.author_id
    /\ handled[2].message.author_id = handled[2].message.guild_id
    /\ handled[1].session_id = handled[2].session_id
    /\ "response" \in {handled[2].sent[k] : k \in DOMAIN handled[2].sent}

(***************************************************************************)
(* C34  Restart cycle                                                      *)
(***************************************************************************)
\* C34: in a run after a restart, when the flush of a session commits whose
\* history was loaded from a store that held rows (no two operations on the
\* session having overlapped), the store holds exactly one row for every
\* message of the list: the loaded rows are not there a second time.
RestartCycleKeepsOneRow ==
    [][\A s \in Sessions :
        (Committed(s) /\ serial[s] /\ runs > 0 /\ loaded_rows[s] > 0) =>
            /\ Len(db'[s]) = Len(messages'[s])
            /\ RowsAre(s, db'[s], messages'[s])]_vars

(***************************************************************************)
(* C35  The ledger and a failing flush                                     *)
(***************************************************************************)
\* C35: when save_all_session() ends and the flush (or compaction) of some
\* session has failed during it, stats.json holds the current statistics of
\* every session.
LedgerSurvivesFlushFailure ==
    [][(/\ spc = "running"
        /\ spc' # "running"
        /\ runs' = runs
        /\ \E s \in Sessions : fpc[s] \in {"raised", "failed"}) =>
            stats_file' = Dumped(stats')]_vars

(***************************************************************************)
(* C36  Lock discipline and termination                                    *)
(***************************************************************************)
\* The lock of session s is held by an operation that is under way: by the
\* schema creation of the load of a running chat(), by a flush that is
\* inserting, or by an aclear().
HeldByRunning(s) ==
    /\ db_lock[s] \in Tasks => pc[db_lock[s]] = "ensure" /\ sess[db_lock[s]] = s
    /\ db_lock[s] = "flush" <=> fpc[s] = "rows"
    /\ \A t \in Tasks : (pc[t] = "ensure" /\ sess[t] = s) => db_lock[s] = t

\* The lock goes from one holder to the next through its released state.
ThroughFree(s) == db_lock'[s] # db_lock[s] => (db_lock[s] = "free" \/ db_lock'[s] = "free")

\* No operation that takes the lock is under way and no lock is held.
AllEnded ==
    /\ \A t \in Tasks : pc[t] = "idle"
    /\ \A s \in Sessions : fpc[s] \notin {"start", "rows"}
    /\ \A s \in Sessions : db_lock[s] = "free"
    /\ spc # "running"

\* C36: the per-session lock is never taken while it is held and is held
\* only by an operation under way (it is released when the operation ends,
\* by returning or by raising); and under fair scheduling every chat(),
\* every flush, every aclear() and every save_all_session() that has started
\* comes to its end and every lock held is released: the operations being
\* finitely many, from some state on none is under way.
LockDisciplineAndProgress ==
    /\ [](\A s \in Sessions : HeldByRunning(s))
    /\ [][\A s \in Sessions : ThroughFree(s)]_vars
    /\ <>[]AllEnded

\* A flush has failed and the save has ended with its exception; the lock
\* is free again: an aclear() on the same session has since taken it and
\* has just returned.
LockDisciplineWitness ==
    \E s \in Sessions :
        /\ fpc[s] = "failed"
        /\ spc = "raised"
        /\ db_lock[s] = "free"
        /\ clears = 1
        /\ returned = [call |-> "aclear", session |-> s]

(***************************************************************************)
(* C37  Registry consistency                                               *)
(***************************************************************************)
\* Every session with a runnable has a history, a prompt and a statistic,
\* and so has the session of a chat() that is past create_instance.
RegistryConsistent ==
    /\ runnables \subseteq (histories \cap prompts \cap DOMAIN stats)
    /\ \A t \in Tasks :
        pc[t] = "invoke" => sess[t] \in (runnables \cap histories \cap DOMAIN stats)

\* Within a run nothing leaves the dictionaries, and no ChatHistory is
\* constructed (and loaded) for a session that has one.
OnlyAdded ==
    runs' = runs =>
        /\ runnables \subseteq runnables'
        /\ prompts \subseteq prompts'
        /\ histories \subseteq histories'
        /\ DOMAIN stats \subseteq DOMAIN stats'
        /\ \A s \in histories : loads'[s] = loads[s]

\* C37: in every reachable state, the states between the awaits of
\* concurrent create_instance calls included, a session that has a runnable
\* has a history, a prompt and a statistic, and chat() finds the history and
\* the statistic it looks up; entries are only added, and the history of a
\* session is never replaced by a new one.
RegistryConsistency == []RegistryConsistent /\ [][OnlyAdded]_vars

\* Two chat() calls on one new session: the first is still in its load, the
\* second has built and stored the runnable and awaits the completion.
RegistryConsistencyWitness ==
    \E t, u \in Tasks :
        /\ pc[t] \in {"ensure", "select"}
        /\ pc[u] = "invoke"
        /\ sess[t] = sess[u]
        /\ sess[u] \in runnables

(***************************************************************************)
(* C38  Shutdown with a failing hook                                       *)
(***************************************************************************)
\* C38: when the on_shutdown hook of a cog raises in close(), close() goes
\* on: in the step in which the hook ends with its exception the loop over
\* the cogs is finished and the registries are saved, the underlying close
\* being what remains.
ShutdownRobustToFailingHook ==
    [][(InShutdownHook /\ spc' = "raised") => closing'.stage = "saved"]_vars

(***************************************************************************)
(* C40  Per-guild notification independence                                *)
(***************************************************************************)
\* The entry is configured (calendar id and channel id set, channel found)
\* and its calendar has events for the day.
Due(conf) == ~Skipped(conf) /\ conf.events = "events"

\* C40: after a run of the morning or of the nightly loop, every configured
\* guild whose calendar has events for the day has been sent its
\* notification, whatever the entries before it were.
NotificationIndependence ==
    \A i \in DOMAIN notified.guilds_conf :
        Due(notified.guilds_conf[i]) => \E k \in DOMAIN notified.sent : notified.sent[k] = i


=============================================================================
